---- MODULE Spec2Model ----
(***************************************************************************)
(* Model of data/exploratory_data_anaysis.py: the exploratory analysis of  *)
(* the article catalog and the user-article interaction log.               *)
(*                                                                         *)
(* A table is a sequence of rows; a row is a function from column names to *)
(* cell values.  A csv file is a record [exists, columns, rows].  Floats of   *)
(* the interaction log's article_id column ("1430.0") are held in tenths.  *)
(***************************************************************************)
EXTENDS Integers, Sequences, FiniteSets, TLC

\* ------------------------------------------------------------------ bounds
MaxRows ==
    3
MaxArticles ==
    2
MaxDefectiveRows ==
    1
\* The values the cells of the input files are drawn from.
EmailValues ==
    {"a@x", "b@x", "c@x"}
ArticleIdValues ==
    {1, 2}

\* ------------------------------------------------------- program constants
\* Cell value of a left-join row that found no match (pandas NaN).
NaN ==
    -1
\* Value of a statistic computed over an empty distribution and cast to int.
Undefined ==
    -2
\* Fixed-point scale of the floats read from the csv (one decimal digit).
Tenths ==
    10

ArticleColumns ==
    {"Unnamed: 0", "article_id", "doc_full_name"}
InteractionColumns ==
    {"Unnamed: 0", "article_id", "email"}

\* Variant: the two statistics stages called in the other order.
NextStageSwapped(stage) ==
    CASE stage = "load" -> "articles"
      [] stage = "articles" -> "stats"
      [] stage = "stats" -> "done"
\* The sequence in which exploratory_analysis calls the three stages.
NextStage(stage) ==
    CASE stage = "load" -> "stats"
      [] stage = "stats" -> "articles"
      [] stage = "articles" -> "done"
Stages ==
    <<"load", "stats", "articles">>

\* ------------------------------------------------------------ table helpers
SeqsUpTo(S, n) ==
    UNION {[1..k -> S] : k \in 0..n}

Restrict(row, cols) ==
    [c \in cols |-> row[c]]

Column(table, col) ==
    [i \in 1..Len(table) |-> table[i][col]]

Values(s) ==
    {s[i] : i \in 1..Len(s)}

\* Variant: drop(columns=[col], errors='ignore').
DropIgnoresMissing(cols, col) ==
    FALSE
\* DataFrame.drop(columns=[col]) raises KeyError when the column is absent.
DropRaises(cols, col) ==
    col \notin cols

DropColumn(table, col) ==
    [i \in 1..Len(table) |-> Restrict(table[i], (DOMAIN table[i]) \ {col})]

\* Series.astype(int) of a float column truncates toward zero.
AsInt(x) ==
    x \div Tenths

\* pandas.read_csv of a file that exists: the rows, as parsed.
ReadCsv(file) ==
    file.rows

\* ----------------------------------------------------------------- inputs
ArticleFileOf(ids, cols) ==
    [exists |-> TRUE, columns |-> cols,
     rows |-> [k \in 1..Len(ids) |->
                 Restrict(("Unnamed: 0" :> (k - 1)) @@ ("article_id" :> ids[k])
                          @@ ("doc_full_name" :> (100 + k)), cols)]]

InteractionFileOf(log, cols) ==
    [exists |-> TRUE, columns |-> cols,
     rows |-> [k \in 1..Len(log) |->
                 Restrict(("Unnamed: 0" :> (k - 1))
                          @@ ("article_id" :> (log[k][2] * Tenths))
                          @@ ("email" :> log[k][1]), cols)]]

MissingFile ==
    [exists |-> FALSE, columns |-> {}, rows |-> <<>>]

\* The column sets of a file that lacks one of the columns the script uses.
DefectiveColumns(cols) ==
    {cols \ {c} : c \in cols \ {"doc_full_name"}}

\* What the script may find at FILE_ARTICLES: nothing, a catalog with all
\* its columns, or a (short) catalog that lacks a column.
ArticleFiles ==
    {MissingFile}
    \cup {ArticleFileOf(ids, ArticleColumns) :
            ids \in SeqsUpTo(ArticleIdValues, MaxArticles)}
    \cup {ArticleFileOf(ids, cols) :
            ids \in SeqsUpTo(ArticleIdValues, MaxDefectiveRows),
            cols \in DefectiveColumns(ArticleColumns)}

\* What the script may find at FILE_INTERACTIONS.
InteractionFiles ==
    {MissingFile}
    \cup {InteractionFileOf(log, InteractionColumns) :
            log \in SeqsUpTo(EmailValues \X ArticleIdValues, MaxRows)}
    \cup {InteractionFileOf(log, cols) :
            log \in SeqsUpTo(EmailValues \X ArticleIdValues, MaxDefectiveRows),
            cols \in DefectiveColumns(InteractionColumns)}

\* ------------------------------------------------------------------ state
VARIABLES
    articlesFile,       \* ./articles_community.csv
    interactionsFile,   \* ./user-item-interactions.csv
    pc,                 \* position of the run
    rerun,              \* the script has been run before
    trace,              \* stages completed by this run, in order
    articles,           \* the articles dataframe
    interactions,       \* the interactions dataframe
    email_id,           \* load_data locals
    email_encoder,
    user_ids,
    report1,            \* Part I report, <<median, mean, max>>
    plot,               \* plots/user_interaction_histogram.png
    df,                 \* articles_statistics locals
    article_popularity,
    report2,            \* Part II report
    prev_loaded,        \* the previous run's loader returned
    prev_encoder,       \* and these were its results
    prev_interactions

vars ==
    <<articlesFile, interactionsFile, pc, rerun, trace, articles, interactions,
      email_id, email_encoder, user_ids, report1, plot, df,
      article_popularity, report2, prev_loaded, prev_encoder,
      prev_interactions>>

files ==
    <<articlesFile, interactionsFile>>
loaderLocals ==
    <<email_id, email_encoder, user_ids>>
statsOut ==
    <<report1, plot>>
articlesOut ==
    <<df, article_popularity, report2>>
prev ==
    <<prev_loaded, prev_encoder, prev_interactions>>

NoTable ==
    <<>>
NoReport ==
    <<>>
EmptyMap ==
    <<>>

Init ==
    /\ articlesFile = MissingFile
    /\ interactionsFile = MissingFile
    /\ pc = "start"
    /\ rerun = FALSE
    /\ trace = <<>>
    /\ articles = NoTable
    /\ interactions = NoTable
    /\ email_id = 0
    /\ email_encoder = EmptyMap
    /\ user_ids = <<>>
    /\ report1 = NoReport
    /\ plot = NoReport
    /\ df = NoTable
    /\ article_popularity = <<>>
    /\ report2 = NoReport
    /\ prev_loaded = FALSE
    /\ prev_encoder = EmptyMap
    /\ prev_interactions = NoTable

\* The script is invoked (lines 140-142) in a directory where the two csv
\* files are as the user left them.
Invoke ==
    /\ pc = "start"
    /\ articlesFile' \in ArticleFiles
    /\ interactionsFile' \in InteractionFiles
    /\ pc' = "load"
    /\ UNCHANGED <<rerun, trace, articles, interactions, loaderLocals, statsOut,
                   articlesOut, prev>>

\* ------------------------------------------------------------------ loader
\* Variant: email_id kept from the previous call (a module-level counter).
StaleCounterLocals ==
    [email_id |-> email_id, email_encoder |-> EmptyMap, user_ids |-> <<>>]
\* load_data's locals as lines 41-43 create them.
FreshLocals ==
    [email_id |-> 0, email_encoder |-> EmptyMap, user_ids |-> <<>>]

\* Lines 33-44 raise: a file is missing (read_csv), the index column is
\* missing (drop), or article_id / email is missing (attribute access).
LoadRaises ==
    \/ ~articlesFile.exists
    \/ DropRaises(articlesFile.columns, "Unnamed: 0")
    \/ ~interactionsFile.exists
    \/ DropRaises(interactionsFile.columns, "Unnamed: 0")
    \/ "article_id" \notin interactionsFile.columns
    \/ "email" \notin interactionsFile.columns

\* interactions.article_id = interactions.article_id.astype(int)
CoerceArticleId(table) ==
    [i \in 1..Len(table) |->
        [table[i] EXCEPT !["article_id"] = AsInt(table[i]["article_id"])]]

\* Variant: email_id += 1 outside the if.
EncodeStepAlwaysIncrement(encoder, id, email) ==
    IF email \notin DOMAIN encoder
    THEN [email_encoder |-> (email :> id) @@ encoder, email_id |-> id + 1]
    ELSE [email_encoder |-> encoder, email_id |-> id + 1]
\* The body of the encoding loop: lines 45-47.
EncodeStep(encoder, id, email) ==
    IF email \notin DOMAIN encoder
    THEN [email_encoder |-> (email :> id) @@ encoder, email_id |-> id + 1]
    ELSE [email_encoder |-> encoder, email_id |-> id]

\* load_data, lines 33-43: both files read, locals created.
LoadData ==
    /\ pc = "load"
    /\ ~LoadRaises
    /\ articles' = DropColumn(ReadCsv(articlesFile), "Unnamed: 0")
    /\ interactions' =
         CoerceArticleId(DropColumn(ReadCsv(interactionsFile), "Unnamed: 0"))
    /\ email_id' = FreshLocals.email_id
    /\ email_encoder' = FreshLocals.email_encoder
    /\ user_ids' = FreshLocals.user_ids
    /\ pc' = "encode"
    /\ UNCHANGED <<files, rerun, trace, statsOut, articlesOut, prev>>

LoadDataRaises ==
    /\ pc = "load"
    /\ LoadRaises
    /\ pc' = "failed"
    /\ UNCHANGED <<files, rerun, trace, articles, interactions, loaderLocals,
                   statsOut, articlesOut, prev>>

\* One iteration of the loop of lines 44-49.
EncodeEmail ==
    /\ pc = "encode"
    /\ Len(user_ids) < Len(interactions)
    /\ LET email == interactions[Len(user_ids) + 1]["email"]
           step == EncodeStep(email_encoder, email_id, email)
       IN /\ email_encoder' = step.email_encoder
          /\ email_id' = step.email_id
          /\ user_ids' = Append(user_ids, step.email_encoder[email])
    /\ UNCHANGED <<files, pc, rerun, trace, articles, interactions, statsOut,
                   articlesOut, prev>>

\* Lines 51-54: the email column is replaced by user_id; load_data returns.
FinishLoad ==
    /\ pc = "encode"
    /\ Len(user_ids) = Len(interactions)
    /\ interactions' =
         [i \in 1..Len(interactions) |->
            ("user_id" :> user_ids[i])
            @@ Restrict(interactions[i], (DOMAIN interactions[i]) \ {"email"})]
    /\ trace' = Append(trace, "load")
    /\ pc' = NextStage("load")
    /\ UNCHANGED <<files, rerun, articles, loaderLocals, statsOut, articlesOut,
                   prev>>

\* ---------------------------------------------------- interaction statistics
\* The elements of a set of integers in ascending order.
SortSet(S) ==
    [k \in 1..Cardinality(S) |->
        CHOOSE x \in S : Cardinality({y \in S : y < x}) = k - 1]

CountOf(column, v) ==
    Cardinality({i \in 1..Len(column) : column[i] = v})

\* df.groupby(key).article_id.count(): one count per key value, keys sorted.
GroupCount(table, key) ==
    LET ks == SortSet(Values(Column(table, key)))
    IN [j \in 1..Len(ks) |-> CountOf(Column(table, key), ks[j])]

\* Variant: grouped by article_id.
UserInteractionCountByArticle(table) ==
    GroupCount(table, "article_id")
\* Line 61: the number of interaction rows of each user.
UserInteractionCount(table) ==
    GroupCount(table, "user_id")

RECURSIVE SumTo(_, _)
SumTo(s, n) ==
    IF n = 0 THEN 0 ELSE s[n] + SumTo(s, n - 1)
Sum(s) ==
    SumTo(s, Len(s))

\* Series.median(), a float (in tenths).
Median(s) ==
    LET o == SortSeq(s, LAMBDA a, b : a < b)
        n == Len(s)
    IN IF n % 2 = 1 THEN o[(n + 1) \div 2] * Tenths
       ELSE ((o[n \div 2] + o[n \div 2 + 1]) * Tenths) \div 2

\* Series.mean(), a float (in tenths).
Mean(s) ==
    (Sum(s) * Tenths) \div Len(s)

\* Series.max().
Max(s) ==
    CHOOSE x \in Values(s) : \A y \in Values(s) : y <= x

\* Lines 62-64: <<median, mean, max>>, each cast to int.
Report1(counts) ==
    IF counts = <<>> THEN <<Undefined, Undefined, Undefined>>
    ELSE <<AsInt(Median(counts)), AsInt(Mean(counts)), Max(counts)>>

\* user_interaction_histogram: bin edges are the sorted distinct counts, the
\* last bin is closed on the right; the annotation repeats the statistics.
Histogram(counts) ==
    LET bins == SortSet(Values(counts))
        m == Len(bins)
    IN [bins |-> bins,
        heights |-> [j \in 1..(IF m = 0 THEN 0 ELSE m - 1) |->
            Cardinality({i \in 1..Len(counts) :
                /\ bins[j] <= counts[i]
                /\ \/ counts[i] < bins[j + 1]
                   \/ j = m - 1 /\ counts[i] = bins[m]})],
        text |-> Report1(counts)]

\* user_interactions_statistics returns: Part I printed, histogram saved.
UserInteractionsStatistics ==
    /\ pc = "stats"
    /\ \E counts \in {UserInteractionCount(interactions)} :
          /\ report1' = Report1(counts)
          /\ plot' = Histogram(counts)
    /\ trace' = Append(trace, "stats")
    /\ pc' = NextStage("stats")
    /\ UNCHANGED <<files, rerun, articles, interactions, loaderLocals,
                   articlesOut, prev>>

\* The statistics of an empty distribution are NaN; the cast of line 62 may
\* raise (a float has no astype) before anything is printed.
UserInteractionsStatisticsRaises ==
    /\ pc = "stats"
    /\ UserInteractionCount(interactions) = <<>>
    /\ pc' = "failed"
    /\ UNCHANGED <<files, rerun, trace, articles, interactions, loaderLocals,
                   statsOut, articlesOut, prev>>

\* Part I is printed, then drawing or saving the figure raises (line 80 or
\* 103, e.g. the plots directory is not writable).
UserInteractionHistogramRaises ==
    /\ pc = "stats"
    /\ \E counts \in {UserInteractionCount(interactions)} :
          report1' = Report1(counts)
    /\ pc' = "failed"
    /\ UNCHANGED <<files, rerun, trace, articles, interactions, loaderLocals,
                   plot, articlesOut, prev>>

\* ------------------------------------------------------- article statistics
\* The rows of a table at the indices I, in table order.
Rows(table, I) ==
    LET ix == SortSet(I)
    IN [k \in 1..Len(ix) |-> table[ix[k]]]

\* Variants: no deduplication, keep='last', keep=False.
DropNoDuplicates(table, col) ==
    table
DropDuplicatesKeepLast(table, col) ==
    Rows(table, {i \in 1..Len(table) :
                    \A j \in (i + 1)..Len(table) :
                        table[j][col] # table[i][col]})
DropAllDuplicated(table, col) ==
    Rows(table, {i \in 1..Len(table) :
                    \A j \in 1..Len(table) :
                        j # i => table[j][col] # table[i][col]})
\* DataFrame.drop_duplicates(subset=[col]), keep='first'.
DropDuplicates(table, col) ==
    Rows(table, {i \in 1..Len(table) :
                    \A j \in 1..(i - 1) : table[j][col] # table[i][col]})

\* left.join(right.set_index(on), on=on, how='left'): every left row, in
\* order, once per matching right row, or once with NaN if none matches.
\* The right rows that match the left row, joined to it, in right order.
Matches(row, right, on, rightCols) ==
    LET m == SortSet({j \in 1..Len(right) : right[j][on] = row[on]})
    IN [k \in 1..Len(m) |-> row @@ Restrict(right[m[k]], rightCols \ {on})]

RECURSIVE JoinFrom(_, _, _, _, _)
JoinFrom(left, right, on, rightCols, i) ==
    IF i > Len(left) THEN <<>>
    ELSE LET m == Matches(left[i], right, on, rightCols)
             out == IF m = <<>>
                    THEN <<left[i] @@ [c \in rightCols \ {on} |-> NaN]>>
                    ELSE m
         IN out \o JoinFrom(left, right, on, rightCols, i + 1)

LeftJoin(left, right, on, rightCols) ==
    JoinFrom(left, right, on, rightCols, 1)

Orderings(S) ==
    {p \in [1..Cardinality(S) -> S] :
        \A i, j \in 1..Cardinality(S) : i # j => p[i] # p[j]}

\* Variant: value_counts(ascending=True).
ValueCountsAscending(column) ==
    {r \in {[k \in 1..Len(p) |-> <<p[k], CountOf(column, p[k])>>] :
                p \in Orderings(Values(column))} :
        \A k \in 1..(Len(r) - 1) : r[k][2] <= r[k + 1][2]}
\* Series.value_counts(): <<value, count>> per distinct value, descending by
\* count; the order of values of equal count is the library's.
ValueCounts(column) ==
    {r \in {[k \in 1..Len(p) |-> <<p[k], CountOf(column, p[k])>>] :
                p \in Orderings(Values(column))} :
        \A k \in 1..(Len(r) - 1) : r[k][2] >= r[k + 1][2]}

\* Variant: the joined rows counted without deduplication.
NumberOfRowsWithInteraction(joined) ==
    Len(joined)
\* Lines 118-119.
NumberOfUniqueArticlesWithInteraction(joined) ==
    Len(DropDuplicates(joined, "article_id"))

\* The columns of the articles dataframe as load_data returns it.
LoadedArticleColumns ==
    articlesFile.columns \ {"Unnamed: 0"}

\* articles_statistics returns: Part II printed.
ArticlesStatistics ==
    /\ pc = "articles"
    /\ "article_id" \in LoadedArticleColumns
    /\ interactions # <<>>
    /\ \E deduped \in {DropDuplicates(articles, "article_id")} :
       \E joined \in {LeftJoin(interactions, deduped, "article_id",
                               LoadedArticleColumns)} :
          /\ articles' = deduped
          /\ df' = joined
          /\ \E ranking \in ValueCounts(Column(joined, "article_id")) :
               /\ article_popularity' = ranking
               /\ report2' =
                    [number_of_unique_articles |-> Len(deduped),
                     number_of_unique_articles_with_interaction |->
                        NumberOfUniqueArticlesWithInteraction(joined),
                     number_of_unique_users |->
                        Cardinality(Values(Column(interactions, "user_id"))),
                     number_of_user_article_interactions |->
                        Len(interactions),
                     most_viewed_article_id |-> ranking[1][1],
                     most_viewed_article_views |-> ranking[1][2]]
    /\ trace' = Append(trace, "articles")
    /\ pc' = NextStage("articles")
    /\ UNCHANGED <<files, rerun, interactions, loaderLocals, statsOut, prev>>

\* Line 110 raises KeyError: the catalog has no article_id column.
ArticlesStatisticsKeyError ==
    /\ pc = "articles"
    /\ "article_id" \notin LoadedArticleColumns
    /\ pc' = "failed"
    /\ UNCHANGED <<files, rerun, trace, articles, interactions, loaderLocals,
                   statsOut, articlesOut, prev>>

\* Line 122 raises IndexError: the popularity ranking of an empty
\* interaction log has no first row.  Lines 110-114 have run.
ArticlesStatisticsIndexError ==
    /\ pc = "articles"
    /\ "article_id" \in LoadedArticleColumns
    /\ interactions = <<>>
    /\ \E deduped \in {DropDuplicates(articles, "article_id")} :
          /\ articles' = deduped
          /\ df' = LeftJoin(interactions, deduped, "article_id",
                            LoadedArticleColumns)
    /\ article_popularity' = <<>>
    /\ pc' = "failed"
    /\ UNCHANGED <<files, rerun, trace, interactions, loaderLocals, statsOut,
                   report2, prev>>

\* ------------------------------------------------------------ the script
\* The script is run again on the same two files: nothing is printed yet,
\* the histogram file of the previous run is still on disk.
Rerun ==
    /\ pc \in {"done", "failed"}
    /\ rerun' = TRUE
    /\ pc' = "load"
    /\ trace' = <<>>
    /\ prev_loaded' = ("load" \in Values(trace))
    /\ prev_encoder' = email_encoder
    /\ prev_interactions' = interactions
    /\ report1' = NoReport
    /\ report2' = NoReport
    /\ UNCHANGED <<files, articles, interactions, loaderLocals, plot, df,
                   article_popularity>>

RunStep ==
    \/ LoadData
    \/ LoadDataRaises
    \/ EncodeEmail
    \/ FinishLoad
    \/ UserInteractionsStatistics
    \/ UserInteractionsStatisticsRaises
    \/ UserInteractionHistogramRaises
    \/ ArticlesStatistics
    \/ ArticlesStatisticsKeyError
    \/ ArticlesStatisticsIndexError

Next ==
    \/ Invoke
    \/ LoadData
    \/ LoadDataRaises
    \/ EncodeEmail
    \/ FinishLoad
    \/ UserInteractionsStatistics
    \/ UserInteractionsStatisticsRaises
    \/ UserInteractionHistogramRaises
    \/ ArticlesStatistics
    \/ ArticlesStatisticsKeyError
    \/ ArticlesStatisticsIndexError
    \/ Rerun

Spec ==
    Init /\ [][Next]_vars

\* One run of the script.  The interpreter runs it to its end: some step of
\* a run that has not ended is always taken.
RunOnce ==
    \/ Invoke
    \/ LoadData
    \/ LoadDataRaises
    \/ EncodeEmail
    \/ FinishLoad
    \/ UserInteractionsStatistics
    \/ UserInteractionsStatisticsRaises
    \/ UserInteractionHistogramRaises
    \/ ArticlesStatistics
    \/ ArticlesStatisticsKeyError
    \/ ArticlesStatisticsIndexError

FairSpec ==
    Init /\ [][RunOnce]_vars /\ WF_vars(RunStep)

\* ================================================================ properties
Loaded ==
    "load" \in Values(trace)
ArticlesJoined ==
    "articles" \in Values(trace)
Emails ==
    Column(interactionsFile.rows, "email")
IsPrefix(s, t) ==
    Len(s) <= Len(t) /\ s = SubSeq(t, 1, Len(s))
FirstIndex(column, v) ==
    CHOOSE j \in 1..Len(column) :
        column[j] = v /\ \A k \in 1..(j - 1) : column[k] # v

\* C1: once load_data has returned, every row's user id is the number of
\* distinct emails seen before the first row of its email (first email 0,
\* k-th new email k-1); equal emails have equal ids and different emails
\* different ids; the ids are exactly 0..n-1 for n distinct emails.
FirstSeenEncoding ==
    Loaded =>
        LET ids == Column(interactions, "user_id")
            n == Cardinality(Values(Emails))
        IN /\ Len(ids) = Len(Emails)
           /\ \A i \in 1..Len(ids) :
                ids[i] = Cardinality(Values(
                            SubSeq(Emails, 1, FirstIndex(Emails, Emails[i]) - 1)))
           /\ \A i, j \in 1..Len(ids) :
                (Emails[i] = Emails[j]) <=> (ids[i] = ids[j])
           /\ Values(ids) = 0..(n - 1)
           /\ Cardinality(Values(ids)) = n
           /\ DOMAIN email_encoder = Values(Emails)

FirstSeenEncodingWitness ==
    /\ Loaded
    /\ Cardinality(Values(Emails)) >= 2
    /\ Len(Emails) > Cardinality(Values(Emails))
    /\ Emails[1] # Emails[2]

\* C2: when the loader has returned in a run after the first, the previous
\* run's loader had returned too, with the same encoding map and the same
\* interactions table.
RerunIsIdentical ==
    (rerun /\ Loaded) =>
        /\ prev_loaded
        /\ email_encoder = prev_encoder
        /\ interactions = prev_interactions

RerunIsIdenticalWitness ==
    /\ rerun
    /\ Loaded
    /\ Len(interactions) >= 2
    /\ Cardinality(DOMAIN email_encoder) >= 2

\* C3: after line 110 the article table is a fixed point of the keep-first
\* deduplication, holds every article_id of the loaded catalog exactly once,
\* and each of its rows is the first catalog row of its article_id.
DedupIdempotent ==
    ArticlesJoined =>
        LET catalog == DropColumn(articlesFile.rows, "Unnamed: 0")
            catalogIds == Column(catalog, "article_id")
        IN /\ DropDuplicates(articles, "article_id") = articles
           /\ \A v \in Values(catalogIds) :
                CountOf(Column(articles, "article_id"), v) = 1
           /\ \A i \in 1..Len(articles) :
                articles[i] =
                    catalog[FirstIndex(catalogIds, articles[i]["article_id"])]

DedupIdempotentWitness ==
    /\ ArticlesJoined
    /\ Len(articlesFile.rows) >= 2
    /\ Len(articles) < Len(articlesFile.rows)
    /\ pc = "done"

\* C4: the joined table has one row per interaction row, in order, with the
\* interaction's user_id and article_id; its metadata is NaN exactly when the
\* article_id is not in the catalog; the reported interaction total is the
\* length of the log and every article_id's popularity is its row count.
LeftJoinRetainsRows ==
    ArticlesJoined =>
        LET ids == Column(interactions, "article_id")
        IN /\ Len(df) = Len(interactions)
           /\ \A i \in 1..Len(df) :
                /\ df[i]["user_id"] = interactions[i]["user_id"]
                /\ df[i]["article_id"] = interactions[i]["article_id"]
                /\ (df[i]["doc_full_name"] = NaN) <=>
                      (ids[i] \notin Values(Column(articles, "article_id")))
           /\ report2.number_of_user_article_interactions
                = Len(interactionsFile.rows)
           /\ {article_popularity[k][1] : k \in 1..Len(article_popularity)}
                = Values(ids)
           /\ \A k \in 1..Len(article_popularity) :
                article_popularity[k][2]
                    = CountOf(ids, article_popularity[k][1])

LeftJoinRetainsRowsWitness ==
    /\ ArticlesJoined
    /\ \E i, j \in 1..Len(df) :
        /\ df[i]["doc_full_name"] = NaN
        /\ df[j]["doc_full_name"] # NaN

\* C5: the reported most-viewed article id occurs in the interaction log, the
\* reported view count is its number of rows, and no article_id has more.
MostViewedIsMax ==
    ArticlesJoined =>
        LET ids == Column(interactions, "article_id")
        IN /\ report2.most_viewed_article_id \in Values(ids)
           /\ report2.most_viewed_article_views
                = CountOf(ids, report2.most_viewed_article_id)
           /\ \A v \in Values(ids) :
                CountOf(ids, v) <= report2.most_viewed_article_views

MostViewedIsMaxWitness ==
    /\ ArticlesJoined
    /\ \E i \in 1..Len(interactions) :
        CountOf(Column(interactions, "article_id"),
                interactions[i]["article_id"])
            < report2.most_viewed_article_views

\* C6: when every row of the log has the same email, the printed median,
\* mean and max all equal the number of rows.
SingleUserStatistics ==
    (report1 # NoReport /\ Cardinality(Values(Emails)) = 1) =>
        report1 = <<Len(Emails), Len(Emails), Len(Emails)>>

SingleUserStatisticsWitness ==
    /\ report1 # NoReport
    /\ Cardinality(Values(Emails)) = 1
    /\ Len(Emails) >= 2
    /\ Cardinality(Values(Column(interactions, "article_id"))) >= 2

MissingFileOrColumn ==
    \/ ~articlesFile.exists
    \/ ~interactionsFile.exists
    \/ ~({"Unnamed: 0", "article_id"} \subseteq articlesFile.columns)
    \/ ~({"Unnamed: 0", "article_id", "email"}
            \subseteq interactionsFile.columns)

\* C7 as claimed: no run on a missing file, a missing column or an empty
\* dataset (either one) completes normally.
FailsOnAnyEmptyDataset ==
    pc = "done" =>
        ~(\/ MissingFileOrColumn
          \/ articlesFile.rows = <<>>
          \/ interactionsFile.rows = <<>>)

\* C7: no run on a missing file, a missing expected column or an empty
\* interaction log completes normally.
FailsOnBadInput ==
    pc = "done" =>
        ~(MissingFileOrColumn \/ interactionsFile.rows = <<>>)

FailsOnBadInputWitness ==
    /\ pc = "failed"
    /\ ~MissingFileOrColumn
    /\ interactionsFile.rows = <<>>
    /\ report1 # NoReport

\* C8: the reported number of unique articles with an interaction is the
\* number of distinct article_ids of the joined table and of the log.
UniqueArticlesWithInteraction ==
    ArticlesJoined =>
        /\ report2.number_of_unique_articles_with_interaction
             = Cardinality(Values(Column(df, "article_id")))
        /\ report2.number_of_unique_articles_with_interaction
             = Cardinality(Values(Column(interactions, "article_id")))

UniqueArticlesWithInteractionWitness ==
    /\ ArticlesJoined
    /\ report2.number_of_unique_articles_with_interaction >= 2
    /\ Values(Column(df, "doc_full_name")) # {NaN}
    /\ report2.number_of_unique_articles_with_interaction < Len(interactions)

PipelineOrder ==
    /\ IsPrefix(trace, Stages)
    /\ pc \in {"start", "load", "encode"} => trace = <<>>
    /\ pc = "stats" => trace = <<"load">>
    /\ pc = "articles" =>
        trace = <<"load", "stats">> /\ report1 # NoReport /\ plot # NoReport
    /\ pc = "done" => trace = Stages

\* C9: the stages complete in the order load, stats, articles, each at most
\* once per run; a stage starts only when the stages before it have
\* completed; and every run ends, completed or failed.
LinearPipeline ==
    /\ []PipelineOrder
    /\ [][\/ trace' = trace
          \/ (trace' = <<>> /\ pc \in {"done", "failed"} /\ pc' = "load")
          \/ (Len(trace') = Len(trace) + 1 /\ IsPrefix(trace, trace'))]_vars
    /\ (pc = "load") ~> (pc \in {"done", "failed"})

LinearPipelineWitness ==
    /\ pc = "done"
    /\ trace = Stages
    /\ report2 # NoReport

\* C10 as claimed: neither statistics stage changes the articles table or
\* the interactions table.
StagesLeaveInputsUnchanged ==
    [][(pc = "stats" \/ pc = "articles") =>
        (articles' = articles /\ interactions' = interactions)]_vars

\* C10: Interaction Statistics changes neither table; a step of Article
\* Statistics leaves the interactions table unchanged and changes the
\* articles table only by removing rows of repeated article_ids: the result
\* is a subsequence with the same article_ids, each once (so the table is
\* unchanged if no id repeats).
StagesFrame ==
    [][/\ pc = "stats" =>
            (articles' = articles /\ interactions' = interactions)
       /\ pc = "articles" =>
            /\ interactions' = interactions
            /\ IF "article_id" \in LoadedArticleColumns
               THEN /\ \E I \in SUBSET (1..Len(articles)) :
                          articles' = Rows(articles, I)
                    /\ Values(Column(articles', "article_id"))
                          = Values(Column(articles, "article_id"))
                    /\ Len(articles')
                          = Cardinality(Values(Column(articles, "article_id")))
               ELSE articles' = articles
      ]_vars

StagesFrameWitness ==
    /\ ArticlesJoined
    /\ interactions # <<>>
    /\ Len(articles) < Len(articlesFile.rows)

====
